---- MODULE Spec2Model ----
(***************************************************************************)
(* A model of the bgzf crate: the block codec (header, footer), the        *)
(* single-block Compressor and Decompressor, the streaming Writer and the  *)
(* streaming Reader.                                                       *)
(*                                                                         *)
(* Byte strings are sequences of numbers in 0..255.  A u32 is kept as the  *)
(* pair <<high 16 bits, low 16 bits>>, since the checker's integers are    *)
(* 32-bit signed.                                                          *)
(***************************************************************************)
EXTENDS Integers, Sequences, FiniteSets, TLC

(***************************************************************************)
(* Program constants (src/src/lib.rs).                                     *)
(***************************************************************************)
BGZF_BLOCK_SIZE == 65280

MAX_BGZF_BLOCK_SIZE == 65536

BGZF_HEADER_SIZE == 18

BGZF_FOOTER_SIZE == 8

BGZF_MAGIC_BYTE_A == 31

BGZF_MAGIC_BYTE_B == 139

BGZF_COMPRESSION_METHOD == 8

BGZF_NAME_COMMENT_EXTRA_FLAG == 4

BGZF_DEFAULT_OS == 255

BGZF_EXTRA_FLAG_LEN == 6

BGZF_SUBFIELD_ID1 == 66

BGZF_SUBFIELD_ID2 == 67

BGZF_SUBFIELD_LEN == 2

BGZF_BLOCK_SIZE_OFFSET == 16

BGZF_COMPRESSION_HINT_BEST == 2

BGZF_COMPRESSION_HINT_FASTEST == 4

BGZF_COMPRESSION_HINT_OTHER == 0

\* Mutant: an end-marker whose size field is one too small.
Mut_BGZF_EOF ==
  << 31, 139, 8, 4, 0, 0, 0, 0, 0, 255, 6, 0, 66, 67, 2, 0, 26, 0,
     3, 0, 0, 0, 0, 0, 0, 0, 0, 0 >>

BGZF_EOF ==
  << 31, 139, 8, 4, 0, 0, 0, 0, 0, 255, 6, 0, 66, 67, 2, 0, 27, 0,
     3, 0, 0, 0, 0, 0, 0, 0, 0, 0 >>

\* libdeflater's CompressionLvl::fastest() and CompressionLvl::best(), the two
\* levels header_inner compares against.
LvlFastest == 1

LvlBest == 12

(***************************************************************************)
(* Bounds of the model.                                                    *)
(***************************************************************************)
\* Most bytes one Writer accepts over its lifetime.
MaxInput == 2

\* Largest target block size a Writer is built with.
MaxBlocksize == 2

\* Most flush() calls on one Writer.
MaxFlush == 2

\* Most failures (of the compressor or of the sink) in one Writer's lifetime.
MaxFaults == 1

\* Largest request of one Reader::read call.
MaxReq == 2

\* Most well-formed blocks in front of the block under test in a source
\* handed to a Reader.
MaxPrefix == 1

\* How far around the edges of the block size (the largest compressed length
\* whose frame fits in 65536 bytes, and 65536 itself) the lengths of a
\* compress call are taken.
MaxEdge == 3

(***************************************************************************)
(* Little-endian integers (byteorder::LittleEndian).                       *)
(***************************************************************************)
U16 == 65536

WriteU16LE(n) == << n % 256, n \div 256 >>

ReadU16LE(bytes, off) == bytes[off + 1] + 256 * bytes[off + 2]

\* A u32 is <<hi, lo>>, two 16-bit halves.
WriteU32LE(w) == WriteU16LE(w[2]) \o WriteU16LE(w[1])

ReadU32LE(bytes, off) == << ReadU16LE(bytes, off + 2), ReadU16LE(bytes, off) >>

\* input.len() as u32, for the lengths the model reaches.
LenAsU32(n) == << n \div U16, n % U16 >>

\* check.amount as usize.
AsUsize(w) == w[1] * U16 + w[2]

(***************************************************************************)
(* CRC-32 (libdeflater::Crc): reflected polynomial 0xEDB88320, initial     *)
(* value and final xor 0xFFFFFFFF, so that the sum of no bytes is 0.       *)
(***************************************************************************)
RECURSIVE XorBits(_, _)
XorBits(a, b) ==
  IF a = 0 THEN b
  ELSE IF b = 0 THEN a
  ELSE ((a + b) % 2) + 2 * XorBits(a \div 2, b \div 2)

\* The xor of two 4-bit numbers a and b, at index 16 * a + b; computed once.
XorNibble == [k \in 0..255 |-> XorBits(k \div 16, k % 16)] @@ << >>

Xor8(a, b) ==
  16 * XorNibble[16 * (a \div 16) + (b \div 16)]
  + XorNibble[16 * (a % 16) + (b % 16)]

Xor(a, b) == 256 * Xor8(a \div 256, b \div 256) + Xor8(a % 256, b % 256)

Xor32(v, w) == << Xor(v[1], w[1]), Xor(v[2], w[2]) >>

Shr32(w, k) ==
  IF k = 1 THEN << w[1] \div 2, (w[1] % 2) * 32768 + w[2] \div 2 >>
  ELSE << w[1] \div 256, (w[1] % 256) * 256 + w[2] \div 256 >>

CrcPoly == << 60856, 33568 >>

RECURSIVE CrcBits(_, _)
CrcBits(c, k) ==
  IF k = 0 THEN c
  ELSE CrcBits(IF c[2] % 2 = 1 THEN Xor32(CrcPoly, Shr32(c, 1)) ELSE Shr32(c, 1),
               k - 1)

\* Computed once.
CrcTable == [i \in 0..255 |-> CrcBits(<< 0, i >>, 8)] @@ << >>

RECURSIVE CrcUpdate(_, _, _)
CrcUpdate(c, bytes, i) ==
  IF i > Len(bytes) THEN c
  ELSE CrcUpdate(Xor32(CrcTable[Xor8(c[2] % 256, bytes[i])], Shr32(c, 8)),
                 bytes, i + 1)

Crc32(bytes) == Xor32(CrcUpdate(<< 65535, 65535 >>, bytes, 1), << 65535, 65535 >>)

(***************************************************************************)
(* The deflate engine (libdeflater), an external collaborator.  Its output *)
(* for a short input is one final stored block: 01, LEN, NLEN, the bytes.  *)
(* The inflate side also accepts 03 00, the empty fixed-Huffman block that *)
(* BGZF_EOF carries.  Bytes after the final block are ignored.             *)
(***************************************************************************)
Zeros(n) == [i \in 1..n |-> 0]

Min(a, b) == IF a < b THEN a ELSE b

Max(a, b) == IF a > b THEN a ELSE b

deflate_compress(input) ==
  << 1 >> \o WriteU16LE(Len(input)) \o WriteU16LE(65535 - Len(input)) \o input

\* [res, out]: out is what the engine wrote at the start of the output buffer.
deflate_decompress(input, outlen) ==
  IF Len(input) >= 2 /\ input[1] = 3 /\ input[2] = 0
  THEN [res |-> "Ok", out |-> << >>]
  ELSE IF Len(input) >= 5 /\ input[1] = 1
          /\ ReadU16LE(input, 1) + ReadU16LE(input, 3) = 65535
          /\ Len(input) >= 5 + ReadU16LE(input, 1)
  THEN IF ReadU16LE(input, 1) > outlen
       THEN [res |-> "InsufficientSpace", out |-> << >>]
       ELSE [res |-> "Ok", out |-> SubSeq(input, 6, 5 + ReadU16LE(input, 1))]
  ELSE [res |-> "BadData", out |-> << >>]

(***************************************************************************)
(* Block codec (src/src/lib.rs).                                           *)
(***************************************************************************)
extra_amount(input_len) == Max(128, input_len \div 10)

\* The u16 sum compressed_size + 18 + 8 - 1 of header_inner: it overflows
\* (a panic with overflow checks, a wrap-around without) from 65510 on.
HeaderSizeOverflows(compressed_size) ==
  compressed_size + BGZF_HEADER_SIZE + BGZF_FOOTER_SIZE >= U16

HeaderSizeField(compressed_size) ==
  (compressed_size + BGZF_HEADER_SIZE + BGZF_FOOTER_SIZE - 1) % U16

CompressionHint(level) ==
  IF level >= LvlBest THEN BGZF_COMPRESSION_HINT_BEST
  ELSE IF level <= LvlFastest THEN BGZF_COMPRESSION_HINT_FASTEST
  ELSE BGZF_COMPRESSION_HINT_OTHER

header_inner(level, compressed_size) ==
  << BGZF_MAGIC_BYTE_A, BGZF_MAGIC_BYTE_B, BGZF_COMPRESSION_METHOD,
     BGZF_NAME_COMMENT_EXTRA_FLAG, 0, 0, 0, 0,
     CompressionHint(level), BGZF_DEFAULT_OS >>
  \o WriteU16LE(BGZF_EXTRA_FLAG_LEN)
  \o << BGZF_SUBFIELD_ID1, BGZF_SUBFIELD_ID2 >>
  \o WriteU16LE(BGZF_SUBFIELD_LEN)
  \o WriteU16LE(HeaderSizeField(compressed_size))

\* Mutant: the subfield identifier is not looked at.
Mut_check_header(bytes) ==
  IF (bytes[4] \div 4) % 2 # 1 THEN "InvalidHeader" ELSE "Ok"

\* bytes[3] & 4 in the source is the bit of value 4 of the flag byte.
check_header(bytes) ==
  IF (bytes[4] \div 4) % 2 # 1 THEN "InvalidHeader"
  ELSE IF bytes[13] # BGZF_SUBFIELD_ID1 \/ bytes[14] # BGZF_SUBFIELD_ID2
  THEN "InvalidHeader"
  ELSE "Ok"

\* Mutant: the size field taken as the block size, without the + 1.
Mut_get_block_size(bytes) == ReadU16LE(bytes, BGZF_BLOCK_SIZE_OFFSET)

get_block_size(bytes) == ReadU16LE(bytes, BGZF_BLOCK_SIZE_OFFSET) + 1

get_footer_values(input) ==
  [sum |-> ReadU32LE(input, Len(input) - 8),
   amount |-> ReadU32LE(input, Len(input) - 4)]

strip_footer(input) == SubSeq(input, 1, Len(input) - BGZF_FOOTER_SIZE)

(***************************************************************************)
(* Compressor::compress.  engine_ok is the outcome of the deflate engine.  *)
(* [res, buffer]: buffer is the caller's scratch buffer afterwards.        *)
(***************************************************************************)
BlockSizeExceeded(bytes_written) == bytes_written >= MAX_BGZF_BLOCK_SIZE

compress(level, input, engine_ok) ==
  LET room == BGZF_HEADER_SIZE + Len(input) + extra_amount(Len(input))
              + BGZF_FOOTER_SIZE
      payload == deflate_compress(input)
      bytes_written == Len(payload)
  IN  IF ~engine_ok
      THEN [res |-> "LibDeflaterCompress", buffer |-> Zeros(room)]
      ELSE IF BlockSizeExceeded(bytes_written)
      THEN [res |-> "BlockSizeExceeded",
            buffer |-> Zeros(BGZF_HEADER_SIZE) \o payload
                       \o Zeros(room - BGZF_HEADER_SIZE - bytes_written)]
      ELSE [res |-> "Ok",
            buffer |-> header_inner(level, bytes_written) \o payload
                       \o WriteU32LE(Crc32(input))
                       \o WriteU32LE(LenAsU32(Len(input)))]

(***************************************************************************)
(* The same call through its lengths alone, for the lengths the byte-level *)
(* model cannot hold.  The conversion "bytes_written as u16" is exact,     *)
(* because bytes_written < 65536 there; the sum in header_inner panics     *)
(* when it overflows in a build with overflow checks and wraps in a build  *)
(* without.  [res, field, frame].                                          *)
(***************************************************************************)
compress_lengths(n, written, checks) ==
  IF BlockSizeExceeded(written)
  THEN [res |-> "BlockSizeExceeded", field |-> 0,
        frame |-> BGZF_HEADER_SIZE + n + extra_amount(n) + BGZF_FOOTER_SIZE]
  ELSE IF checks /\ HeaderSizeOverflows(written)
  THEN [res |-> "Panic", field |-> 0,
        frame |-> BGZF_HEADER_SIZE + n + extra_amount(n) + BGZF_FOOTER_SIZE]
  ELSE [res |-> "Ok", field |-> HeaderSizeField(written),
        frame |-> BGZF_HEADER_SIZE + written + BGZF_FOOTER_SIZE]

\* Mutant: inflate is called whatever length the footer declares.
Mut_decompress(input, output, checksum_values) ==
  LET inflated == deflate_decompress(input, Len(output))
      filled == inflated.out \o SubSeq(output, Len(inflated.out) + 1, Len(output))
  IN  IF inflated.res # "Ok"
      THEN [res |-> "LibDelfaterDecompress", output |-> filled]
      ELSE IF checksum_values.sum # Crc32(filled)
      THEN [res |-> "InvalidChecksum", output |-> filled]
      ELSE [res |-> "Ok", output |-> filled]

(***************************************************************************)
(* Decompressor::decompress.  output is the caller's buffer, already sized *)
(* to the footer's length.  [res, output].                                 *)
(***************************************************************************)
decompress(input, output, checksum_values) ==
  LET inflated == IF AsUsize(checksum_values.amount) # 0
                  THEN deflate_decompress(input, Len(output))
                  ELSE [res |-> "Ok", out |-> << >>]
      filled == inflated.out \o SubSeq(output, Len(inflated.out) + 1, Len(output))
  IN  IF inflated.res # "Ok"
      THEN [res |-> "LibDelfaterDecompress", output |-> filled]
      ELSE IF checksum_values.sum # Crc32(filled)
      THEN [res |-> "InvalidChecksum", output |-> filled]
      ELSE [res |-> "Ok", output |-> filled]

(***************************************************************************)
(* State.                                                                  *)
(*                                                                         *)
(* Writer (src/src/writer.rs): uncompressed_buffer, compressed_buffer,     *)
(* blocksize, level (of its Compressor), writer (the Option<W>: "Some" or  *)
(* "None") and sink, what W has received: one record per write_all or      *)
(* flush call, in order, with whether the call succeeded.                  *)
(*   pc        where the Writer's caller is: "idle" between calls, "write" *)
(*             inside the loop of write, "flush", "finish" or "drop"       *)
(*             inside flush_buffer called from there, "done" once the      *)
(*             Writer is destroyed, "reading" once a Reader is open.       *)
(*   call      the argument of the write call in progress.                 *)
(*   accepted  the bytes of the write calls that returned Ok, in order.    *)
(*   ret       what the last call returned.                                *)
(*   offered   how many bytes the write calls so far were given.           *)
(*   budget    how many compressor or sink calls may still fail.           *)
(*   flushes   how many flush calls were made.                             *)
(*   finished  "no", or the result of finish().                            *)
(***************************************************************************)
VARIABLES uncompressed_buffer, compressed_buffer, blocksize, level, writer,
          sink, pc, call, accepted, ret, offered, budget, flushes, finished

wvars == << uncompressed_buffer, compressed_buffer, blocksize, level, writer,
            sink, pc, call, accepted, ret, offered, budget, flushes, finished >>

(***************************************************************************)
(* Reader (src/src/reader.rs): decompressed_buffer (the decompressed bytes *)
(* not yet delivered), rd_compressed_buffer (its compressed_buffer),       *)
(* header_buffer, and source, the R it reads: the bytes data, the position *)
(* pos, and what a read past the last byte gives: end-of-file ("eof") or   *)
(* an I/O error ("error").                                                 *)
(*   stale      how many bytes at the front of decompressed_buffer are the *)
(*              output of a block whose decompression failed.              *)
(*   delivered  the bytes the read calls that returned Ok gave the caller. *)
(*   leaked     how many of them were output of a block that had failed.   *)
(*   rret       what the last read call did.                               *)
(***************************************************************************)
VARIABLES decompressed_buffer, rd_compressed_buffer, header_buffer, source,
          stale, delivered, leaked, rret

rvars == << decompressed_buffer, rd_compressed_buffer, header_buffer, source,
            stale, delivered, leaked, rret >>

(***************************************************************************)
(* One Compressor::compress call seen through its lengths (src/src/lib.rs):*)
(* input_len is input.len(), bytes_written what the deflate engine         *)
(* returned, cret what the call did: its result, the u16 header_inner      *)
(* wrote at header offset 16 (field) and the length of the buffer it left  *)
(* (frame).  overflow_checks is whether the crate was built with integer   *)
(* overflow checks (the default of a debug build) or without (the default  *)
(* of a release build).                                                    *)
(***************************************************************************)
VARIABLES input_len, bytes_written, overflow_checks, cret

cvars == << input_len, bytes_written, overflow_checks, cret >>

(***************************************************************************)
(* The Writer seen through its lengths (src/src/writer.rs), for buffers of *)
(* the program's own sizes: buffered is uncompressed_buffer.len(), asked   *)
(* the length of the argument of the write call in progress, inputs the    *)
(* lengths of the inputs handed to Compressor::compress, in order, and     *)
(* frames what the sink accepted, in order: a data block (with the length  *)
(* of the input it frames) or the end-marker; writes counts the write     *)
(* calls made.  blocksize, writer, pc, ret, offered, budget, flushes and   *)
(* finished are used as in the byte-level Writer.                          *)
(***************************************************************************)
VARIABLES buffered, asked, inputs, frames, writes

lvars == << buffered, asked, inputs, frames, writes >>

vars == << wvars, rvars, cvars, lvars >>

wvars_but_pc == << uncompressed_buffer, compressed_buffer, blocksize, level,
                  writer, sink, call, accepted, ret, offered, budget, flushes,
                  finished >>

\* The plaintext bytes the model writes.
Bytes == {0, 65}

Levels == {LvlFastest, 6, LvlBest}

RECURSIVE SeqsUpTo(_, _)
SeqsUpTo(S, n) ==
  IF n = 0 THEN {<< >>}
  ELSE LET shorter == SeqsUpTo(S, n - 1)
       IN  shorter \cup {Append(q, x) : q \in shorter, x \in S}

\* The arguments of write: any bytes, or the next n of 1, 2, 3, ... (bytes
\* that are all different, so that a lost, doubled or moved byte shows).
WriteBufs == SeqsUpTo(Bytes, MaxInput)

FreshBuf(n) == [i \in 1..n |-> offered + i]

\* Room for every block, flush and end-marker of a Writer whose block size
\* is not 0; a Writer of block size 0 fills it.
MaxSink == MaxInput + MaxFlush + MaxFaults + 3

SinkWrite(data, ok) == [op |-> "write", data |-> data, ok |-> ok]

SinkFlush(ok) == [op |-> "flush", data |-> << >>, ok |-> ok]

Fault(ok) == IF ok THEN 0 ELSE 1

NoReturn == [op |-> "none", res |-> "Ok", n |-> 0]

NoSource == [data |-> << >>, pos |-> 0, end |-> "eof"]

NoRead == [res |-> "none", err |-> "none", at |-> "none", got |-> 0,
           req |-> 0, out |-> << >>]

\* Reader::new over the source src.
ReaderNew(src) ==
  /\ decompressed_buffer = << >>
  /\ rd_compressed_buffer = << >>
  /\ header_buffer = Zeros(BGZF_HEADER_SIZE)
  /\ source = src
  /\ stale = 0
  /\ delivered = << >>
  /\ leaked = 0
  /\ rret = NoRead

\* No Reader yet.
ReaderIdle == ReaderNew(NoSource)

\* Writer::with_capacity: the assertion joins the guard of construction.
with_capacity(bs, lvl) ==
  /\ bs <= BGZF_BLOCK_SIZE
  /\ uncompressed_buffer = << >>
  /\ compressed_buffer = << >>
  /\ blocksize = bs
  /\ level = lvl
  /\ writer = "Some"

WriterInit(lvls, faulty) ==
  /\ \E bs \in 0..MaxBlocksize, lvl \in lvls : with_capacity(bs, lvl)
  /\ offered = 0
  /\ budget = faulty
  /\ sink = << >>
  /\ pc = "idle"
  /\ call = << >>
  /\ accepted = << >>
  /\ ret = NoReturn
  /\ flushes = 0
  /\ finished = "no"
  /\ ReaderIdle

LengthsIdle ==
  /\ buffered = 0
  /\ asked = 0
  /\ inputs = << >>
  /\ frames = << >>
  /\ writes = 0

NoCompress == [res |-> "none", field |-> 0, frame |-> 0]

CompressorIdle ==
  /\ input_len = 0
  /\ bytes_written = 0
  /\ overflow_checks = FALSE
  /\ cret = NoCompress

(***************************************************************************)
(* One turn of the loop of write or of flush_buffer: split n bytes off the *)
(* accumulation buffer, compress them, write the frame, clear the scratch  *)
(* buffer.  The bytes split off are gone whether or not the turn succeeds. *)
(***************************************************************************)
EmitBlock(n, engine_ok, sink_ok) ==
  LET b == SubSeq(uncompressed_buffer, 1, n)
      rest == SubSeq(uncompressed_buffer, n + 1, Len(uncompressed_buffer))
      c == compress(level, b, engine_ok)
  IN  IF c.res # "Ok"
      THEN [ok |-> FALSE, ub |-> rest, cb |-> c.buffer, sink |-> sink]
      ELSE IF ~sink_ok
      THEN [ok |-> FALSE, ub |-> rest, cb |-> c.buffer,
            sink |-> Append(sink, SinkWrite(c.buffer, FALSE))]
      ELSE [ok |-> TRUE, ub |-> rest, cb |-> << >>,
            sink |-> Append(sink, SinkWrite(c.buffer, TRUE))]

\* Mutant: the destructor flushes the sink but writes no end-marker.
Mut_DropTail(snk, eof_ok, flush_ok) == Append(snk, SinkFlush(flush_ok))

\* The two calls that end Drop::drop; their results are discarded.
DropTail(snk, eof_ok, flush_ok) ==
  Append(Append(snk, SinkWrite(BGZF_EOF, eof_ok)), SinkFlush(flush_ok))

\* Mutant: finish borrows the sink instead of taking it.
Mut_TakeWriter == "Some"

\* What finish leaves in self.writer before it writes the end-marker.
TakeWriter == "None"

\* Mutant: finish returns after the end-marker without flushing the sink.
Mut_FinishTail(snk, eof_ok, flush_ok) ==
  Append(snk, SinkWrite(BGZF_EOF, eof_ok))

\* The end of finish: write_all(BGZF_EOF)?, then flush()?.
FinishTail(snk, eof_ok, flush_ok) ==
  IF eof_ok
  THEN Append(Append(snk, SinkWrite(BGZF_EOF, TRUE)), SinkFlush(flush_ok))
  ELSE Append(snk, SinkWrite(BGZF_EOF, FALSE))

\* Mutant: flush ends as finish does, with the end-marker before the flush.
Mut_FlushTail(snk, flush_ok) ==
  Append(Append(snk, SinkWrite(BGZF_EOF, TRUE)), SinkFlush(flush_ok))

\* The end of flush, after flush_buffer: writer.flush()?.
FlushTail(snk, flush_ok) == Append(snk, SinkFlush(flush_ok))

\* Mutant: flush_buffer splits off one byte at a time.
Mut_FlushChunk(len) == Min(len, 1)

\* The chunk flush_buffer splits off.
FlushChunk(len) == Min(len, MAX_BGZF_BLOCK_SIZE)

\* Mutant: write and flush_buffer use the sink without looking whether it is
\* still there.
Mut_AlreadyFinished == FALSE

\* self.writer.as_mut().ok_or_else(.. "writer already finished" ..)? at the
\* top of write and of flush_buffer.
AlreadyFinished == writer = "None"

(***************************************************************************)
(* Writer::write.                                                          *)
(***************************************************************************)
Write(buf) ==
  /\ pc = "idle"
  /\ offered + Len(buf) <= MaxInput
  /\ offered' = offered + Len(buf)
  /\ IF AlreadyFinished
     THEN /\ ret' = [op |-> "write", res |-> "Err", n |-> 0]
          /\ UNCHANGED << uncompressed_buffer, pc, call >>
     ELSE /\ uncompressed_buffer' = uncompressed_buffer \o buf
          /\ pc' = "write"
          /\ call' = buf
          /\ UNCHANGED ret
  /\ UNCHANGED << compressed_buffer, blocksize, level, writer, sink, accepted,
                  budget, flushes, finished >>
  /\ UNCHANGED << rvars, cvars, lvars >>

WriteBlock ==
  /\ pc = "write"
  /\ Len(uncompressed_buffer) >= blocksize
  /\ Len(sink) < MaxSink
  /\ \E engine_ok \in BOOLEAN, sink_ok \in BOOLEAN :
       \E e \in {EmitBlock(blocksize, engine_ok, sink_ok)} :
           /\ engine_ok \/ sink_ok
           /\ Fault(e.ok) <= budget
           /\ budget' = budget - Fault(e.ok)
           /\ uncompressed_buffer' = e.ub
           /\ compressed_buffer' = e.cb
           /\ sink' = e.sink
           /\ IF e.ok
              THEN UNCHANGED << pc, call, ret >>
              ELSE /\ pc' = "idle"
                   /\ call' = << >>
                   /\ ret' = [op |-> "write", res |-> "Err", n |-> 0]
  /\ UNCHANGED << blocksize, level, writer, accepted, offered, flushes, finished >>
  /\ UNCHANGED << rvars, cvars, lvars >>

WriteReturn ==
  /\ pc = "write"
  /\ Len(uncompressed_buffer) < blocksize
  /\ pc' = "idle"
  /\ ret' = [op |-> "write", res |-> "Ok", n |-> Len(call)]
  /\ accepted' = accepted \o call
  /\ call' = << >>
  /\ UNCHANGED << uncompressed_buffer, compressed_buffer, blocksize, level,
                  writer, sink, offered, budget, flushes, finished >>
  /\ UNCHANGED << rvars, cvars, lvars >>

(***************************************************************************)
(* Writer::flush, Writer::finish and Drop::drop enter flush_buffer.        *)
(***************************************************************************)
Flush ==
  /\ pc = "idle"
  /\ flushes < MaxFlush
  /\ flushes' = flushes + 1
  /\ IF AlreadyFinished
     THEN /\ ret' = [op |-> "flush", res |-> "Err", n |-> 0]
          /\ UNCHANGED pc
     ELSE /\ pc' = "flush"
          /\ UNCHANGED ret
  /\ UNCHANGED << uncompressed_buffer, compressed_buffer, blocksize, level,
                  writer, sink, call, accepted, offered, budget, finished >>
  /\ UNCHANGED << rvars, cvars, lvars >>

Finish ==
  /\ pc = "idle"
  /\ IF writer = "None"
     THEN /\ ret' = [op |-> "finish", res |-> "Err", n |-> 0]
          /\ finished' = "Err"
          /\ pc' = "done"
     ELSE /\ pc' = "finish"
          /\ UNCHANGED << ret, finished >>
  /\ UNCHANGED << uncompressed_buffer, compressed_buffer, blocksize, level,
                  writer, sink, call, accepted, offered, budget, flushes >>
  /\ UNCHANGED << rvars, cvars, lvars >>

Drop ==
  /\ pc = "idle"
  /\ pc' = IF writer = "Some" THEN "drop" ELSE "done"
  /\ UNCHANGED << uncompressed_buffer, compressed_buffer, blocksize, level,
                  writer, sink, call, accepted, ret, offered, budget, flushes, finished >>
  /\ UNCHANGED << rvars, cvars, lvars >>

(***************************************************************************)
(* flush_buffer: one turn of its loop.  A failure returns Err to flush; it *)
(* returns Err from finish, whose consumed Writer is then destroyed with   *)
(* its sink still present; in drop it is discarded and the end-marker      *)
(* follows.                                                                *)
(***************************************************************************)
FlushBlock ==
  /\ pc \in {"flush", "finish", "drop"}
  /\ uncompressed_buffer # << >>
  /\ Len(sink) < MaxSink
  /\ \E engine_ok \in BOOLEAN, sink_ok \in BOOLEAN, eof_ok \in BOOLEAN,
        flush_ok \in BOOLEAN :
       \E e \in {EmitBlock(FlushChunk(Len(uncompressed_buffer)), engine_ok, sink_ok)} :
       LET tail == pc = "drop" /\ ~e.ok
           n == Fault(e.ok) + (IF tail THEN Fault(eof_ok) + Fault(flush_ok) ELSE 0)
       IN  /\ engine_ok \/ sink_ok
           /\ tail \/ (eof_ok /\ flush_ok)
           /\ n <= budget
           /\ budget' = budget - n
           /\ uncompressed_buffer' = e.ub
           /\ compressed_buffer' = e.cb
           /\ sink' = IF tail THEN DropTail(e.sink, eof_ok, flush_ok) ELSE e.sink
           /\ pc' = IF e.ok THEN pc
                    ELSE IF pc = "flush" THEN "idle"
                    ELSE IF pc = "finish" THEN "drop"
                    ELSE "done"
           /\ ret' = IF e.ok \/ pc = "drop" THEN ret
                     ELSE [op |-> pc, res |-> "Err", n |-> 0]
           /\ finished' = IF ~e.ok /\ pc = "finish" THEN "Err" ELSE finished
  /\ UNCHANGED << blocksize, level, writer, call, accepted, offered, flushes >>
  /\ UNCHANGED << rvars, cvars, lvars >>

\* flush, after flush_buffer returned Ok: flush the sink.
FlushEnd ==
  /\ pc = "flush"
  /\ uncompressed_buffer = << >>
  /\ \E flush_ok \in BOOLEAN :
       /\ Fault(flush_ok) <= budget
       /\ budget' = budget - Fault(flush_ok)
       /\ sink' = FlushTail(sink, flush_ok)
       /\ ret' = [op |-> "flush", res |-> IF flush_ok THEN "Ok" ELSE "Err", n |-> 0]
  /\ pc' = "idle"
  /\ UNCHANGED << uncompressed_buffer, compressed_buffer, blocksize, level,
                  writer, call, accepted, offered, flushes, finished >>
  /\ UNCHANGED << rvars, cvars, lvars >>

\* finish, after flush_buffer returned Ok: take the sink, write the
\* end-marker, flush, return; the destructor then finds what take left.
FinishEnd ==
  /\ pc = "finish"
  /\ uncompressed_buffer = << >>
  /\ writer' = TakeWriter
  /\ \E eof_ok \in BOOLEAN, flush_ok \in BOOLEAN, deof_ok \in BOOLEAN,
        dflush_ok \in BOOLEAN :
       LET after == FinishTail(sink, eof_ok, flush_ok)
           ok == eof_ok /\ flush_ok
           dropped == writer' = "Some"
           n == Fault(ok) + (IF dropped THEN Fault(deof_ok) + Fault(dflush_ok) ELSE 0)
       IN  /\ eof_ok \/ flush_ok
           /\ dropped \/ (deof_ok /\ dflush_ok)
           /\ n <= budget
           /\ budget' = budget - n
           /\ sink' = IF dropped THEN DropTail(after, deof_ok, dflush_ok) ELSE after
           /\ ret' = [op |-> "finish", res |-> IF ok THEN "Ok" ELSE "Err", n |-> 0]
           /\ finished' = IF ok THEN "Ok" ELSE "Err"
  /\ pc' = "done"
  /\ UNCHANGED << uncompressed_buffer, compressed_buffer, blocksize, level,
                  call, accepted, offered, flushes >>
  /\ UNCHANGED << rvars, cvars, lvars >>

\* Drop::drop, after its flush_buffer emptied the buffer.
DropEnd ==
  /\ pc = "drop"
  /\ uncompressed_buffer = << >>
  /\ \E eof_ok \in BOOLEAN, flush_ok \in BOOLEAN :
       /\ Fault(eof_ok) + Fault(flush_ok) <= budget
       /\ budget' = budget - Fault(eof_ok) - Fault(flush_ok)
       /\ sink' = DropTail(sink, eof_ok, flush_ok)
  /\ pc' = "done"
  /\ UNCHANGED << uncompressed_buffer, compressed_buffer, blocksize, level,
                  writer, call, accepted, ret, offered, flushes, finished >>
  /\ UNCHANGED << rvars, cvars, lvars >>

WriterSteps ==
  \/ WriteBlock
  \/ WriteReturn
  \/ Flush
  \/ Finish
  \/ Drop
  \/ FlushBlock
  \/ FlushEnd
  \/ FinishEnd
  \/ DropEnd

\* A Writer whose sink and compressor may fail, MaxFaults times in all.
FaultsInit == WriterInit({6}, MaxFaults) /\ CompressorIdle /\ LengthsIdle

FaultsNext ==
  \/ \E n \in 0..MaxInput : Write(FreshBuf(n))
  \/ WriterSteps

SpecFaults == FaultsInit /\ [][FaultsNext]_vars

(***************************************************************************)
(* The Reader's source.  read_exact(n) either gives the next n bytes, or   *)
(* fails having consumed what was left (std's read_exact over a general    *)
(* Read): with UnexpectedEof when the source ended, with the source's own  *)
(* error otherwise.  bytes is the caller's buffer afterwards, which was    *)
(* zeroed before the call; got is how many bytes the source supplied.      *)
(***************************************************************************)
\* Mutant: a source that drops one byte after every successful read.
Mut_read_exact(src, n) ==
  LET left == Len(src.data) - src.pos
  IN  IF n <= left
      THEN [ok |-> TRUE, err |-> "none", got |-> n,
            bytes |-> SubSeq(src.data, src.pos + 1, src.pos + n),
            src |-> [src EXCEPT !.pos = src.pos + n + 1]]
      ELSE [ok |-> FALSE, got |-> Max(left, 0),
            err |-> IF src.end = "eof" THEN "UnexpectedEof" ELSE "Io",
            bytes |-> SubSeq(src.data, src.pos + 1, Len(src.data))
                      \o Zeros(n - Max(left, 0)),
            src |-> [src EXCEPT !.pos = Len(src.data)]]

read_exact(src, n) ==
  LET left == Len(src.data) - src.pos
  IN  IF n <= left
      THEN [ok |-> TRUE, err |-> "none", got |-> n,
            bytes |-> SubSeq(src.data, src.pos + 1, src.pos + n),
            src |-> [src EXCEPT !.pos = src.pos + n]]
      ELSE [ok |-> FALSE, got |-> left,
            err |-> IF src.end = "eof" THEN "UnexpectedEof" ELSE "Io",
            bytes |-> SubSeq(src.data, src.pos + 1, Len(src.data)) \o Zeros(n - left),
            src |-> [src EXCEPT !.pos = Len(src.data)]]

\* Mutants: the header's read_exact propagated with "?"; the payload's
\* read_exact treated like the header's.
Mut_OnHeaderReadError == "return"

Mut_OnPayloadReadError == "break"

\* What read does with a failed read_exact: of the header ("if let Ok(()) =
\* ... else break") and of the payload and footer ("?").
OnHeaderReadError == "break"

OnPayloadReadError == "return"

\* Mutant: a pass that copies nothing unless the queue holds more than is
\* needed, and so goes on to refill a queue that still holds bytes.
Mut_CopyCount(available_bytes, remaining_bytes_needed) ==
  IF available_bytes > remaining_bytes_needed
  THEN remaining_bytes_needed
  ELSE 0

\* How many bytes one pass of read copies out of the output queue.
CopyCount(available_bytes, remaining_bytes_needed) ==
  IF available_bytes > remaining_bytes_needed
  THEN remaining_bytes_needed
  ELSE available_bytes

(***************************************************************************)
(* Reader::read, for a request of n bytes.  r is the Reader: [db, cb, hb,  *)
(* src, stale]; out the bytes copied to the caller's buffer so far, lk how *)
(* many of them came from a failed block.  The result is the Reader        *)
(* afterwards and what the call returned:                                  *)
(*   res   "Ok", "Err" or "Panic";                                         *)
(*   err   for Ok: why the loop ended, "none" (the buffer is full) or the  *)
(*         error of the header's read_exact; for Err: the error;           *)
(*   at    "header" or "payload": which read_exact failed; got: how many   *)
(*         bytes it had been supplied.                                     *)
(***************************************************************************)
ReadResult(r, res, err, at, got, n, out, lk) ==
  [r |-> r, lk |-> lk,
   ret |-> [res |-> res, err |-> err, at |-> at, got |-> got, req |-> n,
            out |-> out]]

RECURSIVE ReadLoop(_, _, _, _)
ReadLoop(r, n, out, lk) ==
  LET available_bytes == Len(r.db)
      take == CopyCount(available_bytes, n - Len(out))
      total == out \o SubSeq(r.db, 1, take)
      old == Min(take, r.stale)
      r1 == [r EXCEPT !.db = SubSeq(r.db, take + 1, available_bytes),
                      !.stale = r.stale - old]
      lk1 == lk + old
  IN  IF Len(total) = n
      THEN ReadResult(r1, "Ok", "none", "none", 0, n, total, lk1)
      ELSE
      LET h == read_exact(r1.src, BGZF_HEADER_SIZE)
          r2 == [r1 EXCEPT !.hb = h.bytes, !.src = h.src]
      IN  IF ~h.ok
          THEN IF OnHeaderReadError = "break"
               THEN ReadResult(r2, "Ok", h.err, "header", h.got, n, total, lk1)
               ELSE ReadResult(r2, "Err", h.err, "header", h.got, n, << >>, 0)
          ELSE IF check_header(r2.hb) # "Ok"
          THEN ReadResult(r2, "Err", "InvalidHeader", "none", 0, n, << >>, 0)
          ELSE
          LET size == get_block_size(r2.hb)
          IN  IF size < BGZF_HEADER_SIZE
              THEN ReadResult(r2, "Panic", "none", "none", 0, n, << >>, 0)
              ELSE
              LET p == read_exact(r2.src, size - BGZF_HEADER_SIZE)
                  r3 == [r2 EXCEPT !.cb = p.bytes, !.src = p.src]
              IN  IF ~p.ok /\ OnPayloadReadError = "return"
                  THEN ReadResult(r3, "Err", p.err, "payload", p.got, n, << >>, 0)
                  ELSE IF ~p.ok
                  THEN ReadResult(r3, "Ok", p.err, "payload", p.got, n, total, lk1)
                  ELSE IF Len(r3.cb) < BGZF_FOOTER_SIZE
                  THEN ReadResult(r3, "Panic", "none", "none", 0, n, << >>, 0)
                  ELSE
                  LET check == get_footer_values(r3.cb)
                      d == decompress(strip_footer(r3.cb),
                                      Zeros(AsUsize(check.amount)), check)
                      r4 == [r3 EXCEPT !.db = d.output]
                  IN  IF d.res # "Ok"
                      THEN ReadResult([r4 EXCEPT !.stale = Len(d.output)],
                                      "Err", d.res, "none", 0, n, << >>, 0)
                      ELSE ReadLoop([r4 EXCEPT !.stale = 0], n, total, lk1)

Read(n) ==
  /\ pc = "reading"
  /\ \E x \in {ReadLoop([db |-> decompressed_buffer, cb |-> rd_compressed_buffer,
                          hb |-> header_buffer, src |-> source, stale |-> stale],
                         n, << >>, 0)} :
         /\ decompressed_buffer' = x.r.db
         /\ rd_compressed_buffer' = x.r.cb
         /\ header_buffer' = x.r.hb
         /\ source' = x.r.src
         /\ stale' = x.r.stale
         /\ rret' = x.ret
         /\ delivered' = IF x.ret.res = "Ok" THEN delivered \o x.ret.out ELSE delivered
         /\ leaked' = IF x.ret.res = "Ok" THEN leaked + x.lk ELSE leaked
         /\ pc' = IF x.ret.res = "Panic" THEN "panicked" ELSE pc
  /\ UNCHANGED << wvars_but_pc, cvars, lvars >>

(***************************************************************************)
(* Round trip: a Writer over a sink that does not fail, then a Reader over *)
(* the bytes the sink received.                                            *)
(***************************************************************************)
RECURSIVE SinkBytes(_)
SinkBytes(snk) ==
  IF snk = << >> THEN << >>
  ELSE (IF Head(snk).op = "write" THEN Head(snk).data ELSE << >>)
       \o SinkBytes(Tail(snk))

Open ==
  /\ pc = "done"
  /\ pc' = "reading"
  /\ source' = [data |-> SinkBytes(sink), pos |-> 0, end |-> "eof"]
  /\ UNCHANGED << decompressed_buffer, rd_compressed_buffer, header_buffer,
                  stale, delivered, leaked, rret >>
  /\ UNCHANGED << wvars_but_pc, cvars, lvars >>

Init == WriterInit(Levels, 0) /\ CompressorIdle /\ LengthsIdle

Next ==
  \/ \E buf \in WriteBufs : Write(buf)
  \/ WriterSteps
  \/ Open
  \/ \E n \in 0..MaxReq : Read(n)

Spec == Init /\ [][Next]_vars

(***************************************************************************)
(* A Reader over any source: well-formed blocks, then at most one block    *)
(* that may be malformed, then at most one more well-formed block, cut at  *)
(* any byte, the source then reporting end-of-file or an I/O error.        *)
(***************************************************************************)
ValidBlock(plain) == compress(6, plain, TRUE).buffer

Patch(bytes, i, v) == [bytes EXCEPT ![i] = v]

\* The flag byte without the extra-field bit; a wrong subfield tag.
BadFlagBlock == Patch(ValidBlock(<< 67 >>), 4, 0)

BadSidBlock == Patch(ValidBlock(<< 67 >>), 13, 0)

\* A footer whose CRC is not that of the payload's plaintext.
BadCrcBlock ==
  LET b == ValidBlock(<< 68 >>)
  IN  Patch(b, Len(b) - 7, (b[Len(b) - 7] + 1) % 256)

\* A payload the inflate engine rejects (block type 3).
BadPayloadBlock == Patch(ValidBlock(<< 69 >>), BGZF_HEADER_SIZE + 1, 7)

\* Headers that pass check_header and declare a block of 1 and of 20 bytes.
TinyBlock(size) ==
  SubSeq(Patch(Patch(BGZF_EOF, 17, size - 1), 18, 0), 1, Max(size, BGZF_HEADER_SIZE))

GoodBlocks == {ValidBlock(<< 65 >>), BGZF_EOF}

TestBlocks ==
  GoodBlocks
  \cup {<< >>, ValidBlock(<< 70, 0 >>), BadFlagBlock, BadSidBlock, BadCrcBlock,
        BadPayloadBlock, TinyBlock(1), TinyBlock(20)}

RECURSIVE Concat(_)
Concat(blocks) ==
  IF blocks = << >> THEN << >> ELSE Head(blocks) \o Concat(Tail(blocks))

Streams ==
  {Concat(pre) \o b \o last :
     pre \in SeqsUpTo(GoodBlocks, MaxPrefix), b \in TestBlocks,
     last \in {<< >>, ValidBlock(<< 66 >>)}}

Sources ==
  UNION {{[data |-> SubSeq(d, 1, cut), pos |-> 0, end |-> e] :
            cut \in 0..Len(d), e \in {"eof", "error"}} : d \in Streams}

ReaderInit ==
  /\ with_capacity(BGZF_BLOCK_SIZE, 6)
  /\ sink = << >>
  /\ pc = "reading"
  /\ call = << >>
  /\ accepted = << >>
  /\ ret = NoReturn
  /\ offered = 0
  /\ budget = 0
  /\ flushes = 0
  /\ finished = "no"
  /\ \E src \in Sources : ReaderNew(src)
  /\ CompressorIdle
  /\ LengthsIdle

ReaderNext == \E n \in 0..MaxReq : Read(n)

SpecReader == ReaderInit /\ [][ReaderNext]_vars

(***************************************************************************)
(* write and flush on a Writer whose sink is gone: the Writer as take() in *)
(* finish leaves it, its buffer emptied by flush_buffer and the blocks it  *)
(* wrote in the sink.  finish consumes the Writer, so only code that holds *)
(* the Writer at that point can make these calls.                          *)
(***************************************************************************)
ReleasedInit ==
  /\ uncompressed_buffer = << >>
  /\ compressed_buffer = << >>
  /\ blocksize \in 0..MaxBlocksize
  /\ level \in Levels
  /\ writer = TakeWriter
  /\ offered = 0
  /\ budget = 0
  /\ \E plain \in WriteBufs :
       /\ accepted = plain
       /\ sink = IF plain = << >> THEN << >>
                 ELSE << SinkWrite(ValidBlock(plain), TRUE) >>
  /\ pc = "idle"
  /\ call = << >>
  /\ ret = NoReturn
  /\ flushes = 0
  /\ finished = "no"
  /\ ReaderIdle
  /\ CompressorIdle
  /\ LengthsIdle

ReleasedNext ==
  \/ \E buf \in WriteBufs : Write(buf)
  \/ Flush
  \/ Drop

SpecReleased == ReleasedInit /\ [][ReleasedNext]_vars

(***************************************************************************)
(* A Reader over one well-formed block in whose compressed payload one bit *)
(* was flipped.                                                            *)
(***************************************************************************)
RECURSIVE Pow2(_)
Pow2(b) == IF b = 0 THEN 1 ELSE 2 * Pow2(b - 1)

FlipBit(bytes, i, b) ==
  Patch(bytes, i, IF (bytes[i] \div Pow2(b)) % 2 = 1
                  THEN bytes[i] - Pow2(b)
                  ELSE bytes[i] + Pow2(b))

PayloadBytes(block) == (BGZF_HEADER_SIZE + 1)..(Len(block) - BGZF_FOOTER_SIZE)

FlippedBlocks ==
  UNION {{FlipBit(block, i, b) : i \in PayloadBytes(block), b \in 0..7} :
           block \in {ValidBlock(<< 69 >>), ValidBlock(<< 70, 0 >>)}}

CorruptInit ==
  /\ with_capacity(BGZF_BLOCK_SIZE, 6)
  /\ sink = << >>
  /\ pc = "reading"
  /\ call = << >>
  /\ accepted = << >>
  /\ ret = NoReturn
  /\ offered = 0
  /\ budget = 0
  /\ flushes = 0
  /\ finished = "no"
  /\ \E block \in FlippedBlocks :
       ReaderNew([data |-> block, pos |-> 0, end |-> "eof"])
  /\ CompressorIdle
  /\ LengthsIdle

SpecCorrupt == CorruptInit /\ [][ReaderNext]_vars

(***************************************************************************)
(* A Reader over a block whose footer declares the length 0, with any      *)
(* payload and any CRC, alone or in front of a well-formed block.          *)
(***************************************************************************)
ZeroLengthBlock(payload, sum) ==
  header_inner(6, Len(payload)) \o payload \o WriteU32LE(sum)
  \o WriteU32LE(<< 0, 0 >>)

ZeroLengthBlocks ==
  {ZeroLengthBlock(payload, sum) :
     payload \in SeqsUpTo({0, 3, 7}, 2),
     sum \in {<< 0, 0 >>, << 0, 1 >>, Crc32(<< 66 >>)}}

ZeroLengthInit ==
  /\ with_capacity(BGZF_BLOCK_SIZE, 6)
  /\ sink = << >>
  /\ pc = "reading"
  /\ call = << >>
  /\ accepted = << >>
  /\ ret = NoReturn
  /\ offered = 0
  /\ budget = 0
  /\ flushes = 0
  /\ finished = "no"
  /\ \E block \in ZeroLengthBlocks, last \in {<< >>, ValidBlock(<< 66 >>)} :
       ReaderNew([data |-> block \o last, pos |-> 0, end |-> "eof"])
  /\ CompressorIdle
  /\ LengthsIdle

SpecZeroLength == ZeroLengthInit /\ [][ReaderNext]_vars

(***************************************************************************)
(* A Reader over a block that is well-formed but for its two leading       *)
(* bytes, alone or in front of a well-formed block.                        *)
(***************************************************************************)
MagicPairs ==
  {<< a, b >> : a \in {0, BGZF_MAGIC_BYTE_A, BGZF_MAGIC_BYTE_B, 255},
                b \in {0, BGZF_MAGIC_BYTE_A, BGZF_MAGIC_BYTE_B, 255}}
  \ {<< BGZF_MAGIC_BYTE_A, BGZF_MAGIC_BYTE_B >>}

BadMagicBlocks ==
  {Patch(Patch(block, 1, m[1]), 2, m[2]) :
     block \in {ValidBlock(<< 65 >>), BGZF_EOF}, m \in MagicPairs}

BadMagicInit ==
  /\ with_capacity(BGZF_BLOCK_SIZE, 6)
  /\ sink = << >>
  /\ pc = "reading"
  /\ call = << >>
  /\ accepted = << >>
  /\ ret = NoReturn
  /\ offered = 0
  /\ budget = 0
  /\ flushes = 0
  /\ finished = "no"
  /\ \E block \in BadMagicBlocks, last \in {<< >>, ValidBlock(<< 66 >>)} :
       ReaderNew([data |-> block \o last, pos |-> 0, end |-> "eof"])
  /\ CompressorIdle
  /\ LengthsIdle

SpecBadMagic == BadMagicInit /\ [][ReaderNext]_vars

(***************************************************************************)
(* Compressor::compress called directly (it is public), with inputs and    *)
(* engine results whose lengths lie at the edges of the block size.  The   *)
(* engine writes into buffer[18..], so it returns at most                  *)
(* input_len + extra_amount(input_len) + 8; and it returns no more than    *)
(* the stored block it falls back to for input that does not compress.     *)
(***************************************************************************)
MaxPayload == MAX_BGZF_BLOCK_SIZE - BGZF_HEADER_SIZE - BGZF_FOOTER_SIZE

InputLens ==
  {0, BGZF_BLOCK_SIZE, MAX_BGZF_BLOCK_SIZE}
  \cup ((MaxPayload - MaxEdge)..(MaxPayload + MaxEdge))

StoredLen(n) == Len(deflate_compress(<< >>)) + n

WrittenLens(n) ==
  {w \in {1} \cup ((MaxPayload - MaxEdge)..(MAX_BGZF_BLOCK_SIZE + MaxEdge)) :
     w <= Min(StoredLen(n), n + extra_amount(n) + BGZF_FOOTER_SIZE)}

Compress(n, written) ==
  /\ input_len' = n
  /\ bytes_written' = written
  /\ cret' = compress_lengths(n, written, overflow_checks)
  /\ UNCHANGED << wvars, rvars, lvars, overflow_checks >>

CompressInit ==
  /\ WriterInit({6}, 0)
  /\ input_len = 0
  /\ bytes_written = 0
  /\ overflow_checks \in BOOLEAN
  /\ cret = NoCompress
  /\ LengthsIdle

CompressNext == \E n \in InputLens : \E written \in WrittenLens(n) : Compress(n, written)

SpecCompress == CompressInit /\ [][CompressNext]_vars

(***************************************************************************)
(* The Writer through its lengths.  The actions are those of the           *)
(* byte-level Writer, with the buffer replaced by its length and the sink  *)
(* by the frames it accepted; a flush of the sink leaves no frame.         *)
(***************************************************************************)
\* Most full blocks one Writer is given the bytes for.
MaxBlocks == 11

\* Most write calls on one Writer, in the model of lengths.
MaxWrites == 2

bytevars == << uncompressed_buffer, compressed_buffer, level, sink, call,
               accepted >>

DataFrame(n) == [kind |-> "data", len |-> n]

EofFrame == [kind |-> "eof", len |-> 0]

LenBlocksizes == {1, 2, BGZF_BLOCK_SIZE}

WriteLens ==
  {0, 1, 2, BGZF_BLOCK_SIZE, BGZF_BLOCK_SIZE + 1, MAX_BGZF_BLOCK_SIZE + 1,
   650000}

\* One turn of either loop: n bytes leave the buffer and go to the
\* compressor; the frame reaches the sink when both calls succeed.
EmitLen(n, engine_ok, sink_ok) ==
  [ok |-> engine_ok /\ sink_ok,
   buffered |-> buffered - n,
   inputs |-> Append(inputs, n),
   frames |-> IF engine_ok /\ sink_ok THEN Append(frames, DataFrame(n))
              ELSE frames]

\* Mutant: the end-marker is not written.
Mut_EofLen(frs, eof_ok) == frs

EofLen(frs, eof_ok) == IF eof_ok THEN Append(frs, EofFrame) ELSE frs

WriteLen(n) ==
  /\ pc = "idle"
  /\ offered + n <= blocksize * MaxBlocks
  /\ writes < MaxWrites
  /\ writes' = writes + 1
  /\ offered' = offered + n
  /\ IF writer = "None"
     THEN /\ ret' = [op |-> "write", res |-> "Err", n |-> 0]
          /\ UNCHANGED << buffered, pc, asked >>
     ELSE /\ buffered' = buffered + n
          /\ pc' = "write"
          /\ asked' = n
          /\ UNCHANGED ret
  /\ UNCHANGED << blocksize, writer, budget, flushes, finished, inputs, frames >>
  /\ UNCHANGED << bytevars, rvars, cvars >>

WriteBlockLen ==
  /\ pc = "write"
  /\ buffered >= blocksize
  /\ \E engine_ok \in BOOLEAN, sink_ok \in BOOLEAN :
       \E e \in {EmitLen(blocksize, engine_ok, sink_ok)} :
           /\ engine_ok \/ sink_ok
           /\ Fault(e.ok) <= budget
           /\ budget' = budget - Fault(e.ok)
           /\ buffered' = e.buffered
           /\ inputs' = e.inputs
           /\ frames' = e.frames
           /\ IF e.ok
              THEN UNCHANGED << pc, asked, ret >>
              ELSE /\ pc' = "idle"
                   /\ asked' = 0
                   /\ ret' = [op |-> "write", res |-> "Err", n |-> 0]
  /\ UNCHANGED << blocksize, writer, offered, flushes, finished, writes >>
  /\ UNCHANGED << bytevars, rvars, cvars >>

WriteReturnLen ==
  /\ pc = "write"
  /\ buffered < blocksize
  /\ pc' = "idle"
  /\ ret' = [op |-> "write", res |-> "Ok", n |-> asked]
  /\ asked' = 0
  /\ UNCHANGED << blocksize, writer, offered, budget, flushes, finished,
                  buffered, inputs, frames, writes >>
  /\ UNCHANGED << bytevars, rvars, cvars >>

FlushLen ==
  /\ pc = "idle"
  /\ flushes < MaxFlush
  /\ flushes' = flushes + 1
  /\ IF writer = "None"
     THEN /\ ret' = [op |-> "flush", res |-> "Err", n |-> 0]
          /\ UNCHANGED pc
     ELSE /\ pc' = "flush"
          /\ UNCHANGED ret
  /\ UNCHANGED << blocksize, writer, offered, budget, finished, lvars >>
  /\ UNCHANGED << bytevars, rvars, cvars >>

FinishLen ==
  /\ pc = "idle"
  /\ IF writer = "None"
     THEN /\ ret' = [op |-> "finish", res |-> "Err", n |-> 0]
          /\ finished' = "Err"
          /\ pc' = "done"
     ELSE /\ pc' = "finish"
          /\ UNCHANGED << ret, finished >>
  /\ UNCHANGED << blocksize, writer, offered, budget, flushes, lvars >>
  /\ UNCHANGED << bytevars, rvars, cvars >>

DropLen ==
  /\ pc = "idle"
  /\ pc' = IF writer = "Some" THEN "drop" ELSE "done"
  /\ UNCHANGED << blocksize, writer, ret, offered, budget, flushes, finished,
                  lvars >>
  /\ UNCHANGED << bytevars, rvars, cvars >>

FlushBlockLen ==
  /\ pc \in {"flush", "finish", "drop"}
  /\ buffered # 0
  /\ \E engine_ok \in BOOLEAN, sink_ok \in BOOLEAN, eof_ok \in BOOLEAN,
        flush_ok \in BOOLEAN :
       \E e \in {EmitLen(FlushChunk(buffered), engine_ok, sink_ok)} :
       LET tail == pc = "drop" /\ ~e.ok
           n == Fault(e.ok) + (IF tail THEN Fault(eof_ok) + Fault(flush_ok) ELSE 0)
       IN  /\ engine_ok \/ sink_ok
           /\ tail \/ (eof_ok /\ flush_ok)
           /\ n <= budget
           /\ budget' = budget - n
           /\ buffered' = e.buffered
           /\ inputs' = e.inputs
           /\ frames' = IF tail THEN EofLen(e.frames, eof_ok) ELSE e.frames
           /\ pc' = IF e.ok THEN pc
                    ELSE IF pc = "flush" THEN "idle"
                    ELSE IF pc = "finish" THEN "drop"
                    ELSE "done"
           /\ ret' = IF e.ok \/ pc = "drop" THEN ret
                     ELSE [op |-> pc, res |-> "Err", n |-> 0]
           /\ finished' = IF ~e.ok /\ pc = "finish" THEN "Err" ELSE finished
  /\ UNCHANGED << blocksize, writer, offered, flushes, asked, writes >>
  /\ UNCHANGED << bytevars, rvars, cvars >>

FlushEndLen ==
  /\ pc = "flush"
  /\ buffered = 0
  /\ \E flush_ok \in BOOLEAN :
       /\ Fault(flush_ok) <= budget
       /\ budget' = budget - Fault(flush_ok)
       /\ ret' = [op |-> "flush", res |-> IF flush_ok THEN "Ok" ELSE "Err", n |-> 0]
  /\ pc' = "idle"
  /\ UNCHANGED << blocksize, writer, offered, flushes, finished, lvars >>
  /\ UNCHANGED << bytevars, rvars, cvars >>

FinishEndLen ==
  /\ pc = "finish"
  /\ buffered = 0
  /\ writer' = TakeWriter
  /\ \E eof_ok \in BOOLEAN, flush_ok \in BOOLEAN, deof_ok \in BOOLEAN,
        dflush_ok \in BOOLEAN :
       LET after == EofLen(frames, eof_ok)
           ok == eof_ok /\ flush_ok
           dropped == writer' = "Some"
           n == Fault(ok) + (IF dropped THEN Fault(deof_ok) + Fault(dflush_ok) ELSE 0)
       IN  /\ eof_ok \/ flush_ok
           /\ dropped \/ (deof_ok /\ dflush_ok)
           /\ n <= budget
           /\ budget' = budget - n
           /\ frames' = IF dropped THEN EofLen(after, deof_ok) ELSE after
           /\ ret' = [op |-> "finish", res |-> IF ok THEN "Ok" ELSE "Err", n |-> 0]
           /\ finished' = IF ok THEN "Ok" ELSE "Err"
  /\ pc' = "done"
  /\ UNCHANGED << blocksize, offered, flushes, buffered, asked, inputs,
                  writes >>
  /\ UNCHANGED << bytevars, rvars, cvars >>

DropEndLen ==
  /\ pc = "drop"
  /\ buffered = 0
  /\ \E eof_ok \in BOOLEAN, flush_ok \in BOOLEAN :
       /\ Fault(eof_ok) + Fault(flush_ok) <= budget
       /\ budget' = budget - Fault(eof_ok) - Fault(flush_ok)
       /\ frames' = EofLen(frames, eof_ok)
  /\ pc' = "done"
  /\ UNCHANGED << blocksize, writer, ret, offered, flushes, finished,
                  buffered, asked, inputs, writes >>
  /\ UNCHANGED << bytevars, rvars, cvars >>

LengthsInit ==
  /\ \E bs \in LenBlocksizes : with_capacity(bs, 6)
  /\ offered = 0
  /\ budget = MaxFaults
  /\ sink = << >>
  /\ pc = "idle"
  /\ call = << >>
  /\ accepted = << >>
  /\ ret = NoReturn
  /\ flushes = 0
  /\ finished = "no"
  /\ ReaderIdle
  /\ CompressorIdle
  /\ LengthsIdle

LengthsNext ==
  \/ \E n \in WriteLens : WriteLen(n)
  \/ WriteBlockLen
  \/ WriteReturnLen
  \/ FlushLen
  \/ FinishLen
  \/ DropLen
  \/ FlushBlockLen
  \/ FlushEndLen
  \/ FinishEndLen
  \/ DropEndLen

SpecLengths == LengthsInit /\ [][LengthsNext]_vars

(***************************************************************************)
(* Properties.                                                             *)
(***************************************************************************)
IsPrefix(a, b) == Len(a) <= Len(b) /\ a = SubSeq(b, 1, Len(a))

\* The write_all calls the sink received, in order.
RECURSIVE SinkWrites(_)
SinkWrites(snk) ==
  IF snk = << >> THEN << >>
  ELSE (IF Head(snk).op = "write" THEN << Head(snk) >> ELSE << >>)
       \o SinkWrites(Tail(snk))

\* How many times the end-marker was sent to the sink.
EofCount(snk) ==
  Cardinality({i \in 1..Len(snk) : snk[i].op = "write" /\ snk[i].data = BGZF_EOF})

\* The last read call asked for bytes and got none: end-of-stream.
AtEndOfStream == rret.res = "Ok" /\ rret.req > 0 /\ rret.out = << >>

\* A Reader over the sink returns no error, only bytes the Writer accepted,
\* in order, and all of them once it reports end-of-stream.
ReadsBack ==
  /\ rret.res \in {"none", "Ok"}
  /\ pc # "panicked"
  /\ IsPrefix(delivered, accepted)
  /\ AtEndOfStream => delivered = accepted

\* C1: round trip.  After any writes (and flushes) and a finish() over a sink
\* that does not fail, every byte given to write was accepted, and a Reader
\* over the sink's bytes, read to end-of-stream with requests of any sizes,
\* delivers exactly the accepted bytes, in order.
C1_RoundTrip ==
  finished = "Ok" =>
    /\ offered = Len(accepted)
    /\ pc = "reading" => ReadsBack

C1_Witness ==
  /\ finished = "Ok"
  /\ pc = "reading"
  /\ AtEndOfStream
  /\ delivered = accepted
  /\ Len(accepted) = MaxInput
  /\ blocksize = 1
  /\ 0 \in {accepted[i] : i \in 1..Len(accepted)}

\* C2: after a finish() that returned Ok (whatever the calls before it did),
\* the sink has received the end-marker exactly once, as its last write, with
\* a successful flush after it and nothing else, the destructor included.
C2_OneEofAtEnd ==
  finished = "Ok" =>
    /\ pc \in {"done", "reading"}
    /\ EofCount(sink) = 1
    /\ Len(sink) >= 2
    /\ sink[Len(sink) - 1] = SinkWrite(BGZF_EOF, TRUE)
    /\ sink[Len(sink)] = SinkFlush(TRUE)

C2_Witness ==
  /\ finished = "Ok"
  /\ Len(sink) >= 5
  /\ flushes > 0
  /\ budget < MaxFaults

\* C3: over the whole lifetime of a Writer, whatever fails, the end-marker is
\* sent to the sink at most once.
C3_EofAtMostOnce == EofCount(sink) <= 1

C3_Witness ==
  /\ pc = "done"
  /\ finished = "Err"
  /\ budget < MaxFaults
  /\ EofCount(sink) = 1

\* C4: a Writer destroyed without finish(), over a sink and a compressor that
\* do not fail: the accumulation buffer is emptied into framed blocks, then
\* the end-marker is written once, as the last write, and a Reader over the
\* sink delivers exactly the accepted bytes.
C4_DropTerminates ==
  (finished = "no" /\ pc \in {"done", "reading"}) =>
    /\ uncompressed_buffer = << >>
    /\ EofCount(sink) = 1
    /\ SinkWrites(sink)[Len(SinkWrites(sink))] = SinkWrite(BGZF_EOF, TRUE)
    /\ sink[Len(sink)] = SinkFlush(TRUE)
    /\ pc = "reading" => ReadsBack

C4_Witness ==
  /\ finished = "no"
  /\ pc = "reading"
  /\ flushes > 0
  /\ AtEndOfStream
  /\ delivered = accepted
  /\ Len(accepted) = MaxInput
  /\ Len(sink) >= 5

\* C5: every compress call that returns Ok leaves a frame of
\* 18 + bytes_written + 8 bytes, at most 65536, whose size field plus 1 is
\* that length; a call whose frame would be larger fails with
\* BlockSizeExceeded, it neither panics on the u16 sum nor wraps it.
C5_BlockSizeInvariant ==
  /\ cret.res = "Ok" =>
       /\ cret.frame = BGZF_HEADER_SIZE + bytes_written + BGZF_FOOTER_SIZE
       /\ cret.field + 1 = cret.frame
       /\ cret.frame <= MAX_BGZF_BLOCK_SIZE
  /\ cret.res # "Panic"
  /\ (cret.res # "none"
      /\ BGZF_HEADER_SIZE + bytes_written + BGZF_FOOTER_SIZE > MAX_BGZF_BLOCK_SIZE)
       => cret.res = "BlockSizeExceeded"

\* C6: no byte of a block that failed (invalid header, failed inflation,
\* checksum mismatch) is ever delivered to the caller, in the failing call or
\* in a later one.
C6_NoByteOfFailedBlock == leaked = 0

\* C7: every I/O failure of the source makes read return an error, in the
\* header as in the payload; a read returns Ok after a failed read_exact only
\* when the source ran out of bytes inside a header.
C7_IoErrorPropagated ==
  /\ rret.err = "Io" => rret.res = "Err"
  /\ (rret.res = "Ok" /\ rret.err # "none") =>
       (rret.err = "UnexpectedEof" /\ rret.at = "header")

\* C8: when the source ends after 0..17 bytes of the next header, read
\* returns Ok with the bytes it had copied in that call, not an error.
C8_ShortHeaderIsEof ==
  (rret.at = "header" /\ rret.err = "UnexpectedEof") =>
    /\ rret.res = "Ok"
    /\ rret.got \in 0..(BGZF_HEADER_SIZE - 1)
    /\ Len(rret.out) < rret.req
    /\ Len(delivered) >= Len(rret.out)
    /\ rret.out = SubSeq(delivered, Len(delivered) - Len(rret.out) + 1, Len(delivered))

C8_Witness ==
  /\ rret.at = "header"
  /\ rret.err = "UnexpectedEof"
  /\ rret.res = "Ok"
  /\ rret.got > 0
  /\ rret.out # << >>

\* C9: when the source gives a whole header that passes check_header and then
\* fewer bytes than the block size promises, that read call returns an error
\* (not Ok), delivers nothing, and leaves nothing of the block to deliver:
\* the output queue is empty and the source is used up.
C9_TruncatedBlockIsError ==
  rret.at = "payload" =>
    /\ rret.res = "Err"
    /\ rret.err \in {"UnexpectedEof", "Io"}
    /\ rret.got < get_block_size(header_buffer) - BGZF_HEADER_SIZE
    /\ rret.out = << >>
    /\ decompressed_buffer = << >>
    /\ source.pos = Len(source.data)

C9_Witness ==
  /\ rret.at = "payload"
  /\ rret.err = "UnexpectedEof"
  /\ rret.res = "Err"
  /\ rret.got > 0
  /\ delivered # << >>
  /\ check_header(header_buffer) = "Ok"

\* C10: a read of N > 0 bytes returns Ok with fewer than N bytes only when
\* the source is exhausted (all its bytes consumed, and it ended).
C10_ShortOnlyAtEnd ==
  (rret.res = "Ok" /\ Len(rret.out) < rret.req) =>
    (source.end = "eof" /\ source.pos = Len(source.data))

\* C11: over a sink and a compressor that do not fail, every write call
\* terminates and returns the length of its argument: each turn of its loop
\* leaves the accumulation buffer shorter than it found it, and when the
\* loop ends write returns Ok(buf.len()).
C11_WriteTerminates ==
  [][/\ (pc = "write" /\ pc' = "write")
          => Len(uncompressed_buffer') < Len(uncompressed_buffer)
     /\ (pc = "write" /\ pc' # "write")
          => ret' = [op |-> "write", res |-> "Ok", n |-> Len(call)]]_vars

\* C12: every input the Writer hands to the compressor, from write, flush,
\* finish or the destructor, and also after a call that failed, has at most
\* BGZF_BLOCK_SIZE (65280) bytes.
C12_InputsWithinBlockSize ==
  \A i \in 1..Len(inputs) : inputs[i] <= BGZF_BLOCK_SIZE

\* What a Reader over the bytes (then end-of-file) returns to one read call
\* that asks for more than they can hold.
Decoded(bytes) ==
  ReadLoop([db |-> << >>, cb |-> << >>, hb |-> Zeros(BGZF_HEADER_SIZE),
            src |-> [data |-> bytes, pos |-> 0, end |-> "eof"], stale |-> 0],
           Len(bytes) + 1, << >>, 0).ret

FlushOk == [op |-> "flush", res |-> "Ok", n |-> 0]

FullBlocks(n, b) == [i \in 1..(n \div b) |-> DataFrame(b)]

Remainder(n, b) == IF n % b # 0 THEN << DataFrame(n % b) >> ELSE << >>

ExpectedFrames(n, b) == FullBlocks(n, b) \o Remainder(n, b) \o << EofFrame >>

\* Writes that all succeeded, no flush, then a finish that returned Ok.
WrittenThenFinished ==
  /\ finished = "Ok"
  /\ flushes = 0
  /\ budget = MaxFaults

\* C14: N bytes written to a fresh Writer of block size B > 0, in any number
\* of write calls, without a flush, then finish(): the sink holds
\* floor(N / B) blocks of B bytes, then a block of N mod B bytes when that is
\* not 0, then the end-marker; ceil(N / B) + 1 frames in all.
C14_BlockBoundaries ==
  WrittenThenFinished =>
    /\ blocksize > 0
    /\ frames = ExpectedFrames(offered, blocksize)
    /\ Len(frames) = (offered + blocksize - 1) \div blocksize + 1
    /\ inputs = SubSeq([i \in 1..Len(frames) |-> frames[i].len], 1, Len(frames) - 1)

C14_Witness ==
  /\ WrittenThenFinished
  /\ writes = 2
  /\ blocksize = BGZF_BLOCK_SIZE
  /\ offered \div blocksize >= 1
  /\ offered % blocksize # 0
  /\ Len(frames) >= 3

\* One write call of 650,000 bytes to a Writer with the default block size,
\* then a finish that returned Ok.
Wrote650000 ==
  /\ WrittenThenFinished
  /\ writes = 1
  /\ offered = 650000
  /\ blocksize = BGZF_BLOCK_SIZE

\* C15 as stated: 650,000 bytes written in one call with the default block
\* size, then finish: 10 full-size blocks, one remainder block, the
\* end-marker.
C15_TenFullBlocks ==
  Wrote650000 =>
    /\ Len(frames) = 12
    /\ \A i \in 1..10 : frames[i] = DataFrame(BGZF_BLOCK_SIZE)
    /\ frames[11].kind = "data"
    /\ frames[12] = EofFrame

\* C15 amended: 650,000 bytes written in one call with the default block
\* size, then finish: 9 full-size blocks, one remainder block of 62,480
\* bytes, the end-marker; 11 frames, ceil(650000 / 65280) + 1.
C15_NineFullBlocks ==
  Wrote650000 =>
    /\ Len(frames) = 11
    /\ \A i \in 1..9 : frames[i] = DataFrame(BGZF_BLOCK_SIZE)
    /\ frames[10] = DataFrame(62480)
    /\ frames[11] = EofFrame

C15_Witness ==
  /\ Wrote650000
  /\ pc = "done"
  /\ buffered = 0
  /\ Len(inputs) = 10

\* C16: the read call that takes in a block with one bit of its compressed
\* payload flipped fails with InvalidChecksum, whether the inflate engine
\* gives other bytes for the corrupted payload or reports a failure itself.
C16_FlippedBitIsInvalidChecksum ==
  [][(source.pos = 0 /\ source'.pos > 0) =>
       (rret'.res = "Err" /\ rret'.err = "InvalidChecksum")]_vars

\* C17: on a Writer whose sink has been released, every write call and every
\* flush call returns an error, sends nothing to the sink and leaves the
\* accumulation buffer as it was.
C17_ReleasedWriterRefuses ==
  [][writer = "None" =>
       /\ sink' = sink
       /\ uncompressed_buffer' = uncompressed_buffer
       /\ writer' = "None"
       /\ offered' # offered => ret' = [op |-> "write", res |-> "Err", n |-> 0]
       /\ flushes' # flushes => ret' = [op |-> "flush", res |-> "Err", n |-> 0]
       /\ pc' \in {"idle", "done"}]_vars

\* A write of some bytes and then a flush were refused.
C17_Witness ==
  /\ writer = "None"
  /\ offered > 0
  /\ flushes > 0
  /\ ret = [op |-> "flush", res |-> "Err", n |-> 0]
  /\ sink # << >>
  /\ uncompressed_buffer = << >>

EofHeader == SubSeq(BGZF_EOF, 1, BGZF_HEADER_SIZE)

EofRest == SubSeq(BGZF_EOF, BGZF_HEADER_SIZE + 1, Len(BGZF_EOF))

\* The sources that are the end-marker alone, and the end-marker in front of
\* a block of the byte 66, read to their end-of-file.
EofSources == {BGZF_EOF, BGZF_EOF \o ValidBlock(<< 66 >>)}

\* C18: the end-marker is a well-formed block: 28 bytes, a header that
\* check_header accepts, a size field that plus 1 is 28, a footer of CRC 0 and
\* length 0; and a Reader decodes it to zero bytes without an error, alone or
\* in front of another block.
C18_EofIsWellFormed ==
  /\ Len(BGZF_EOF) = 28
  /\ check_header(EofHeader) = "Ok"
  /\ get_block_size(EofHeader) = Len(BGZF_EOF)
  /\ get_footer_values(EofRest) = [sum |-> << 0, 0 >>, amount |-> << 0, 0 >>]
  /\ decompress(strip_footer(EofRest), << >>, get_footer_values(EofRest))
       = [res |-> "Ok", output |-> << >>]
  /\ (source.data \in EofSources /\ source.end = "eof") =>
       /\ rret.res \in {"none", "Ok"}
       /\ pc = "reading"
       /\ leaked = 0
       /\ IsPrefix(delivered, << 66 >>)
       /\ (source.data = BGZF_EOF => delivered = << >>)

\* The end-marker was read and gave nothing, and the block behind it was
\* read in the same call.
C18_Witness ==
  /\ source.data = BGZF_EOF \o ValidBlock(<< 66 >>)
  /\ source.end = "eof"
  /\ source.pos = Len(source.data)
  /\ rret.res = "Ok"
  /\ rret.out = << 66 >>
  /\ delivered = << 66 >>

\* The footer CRC of the first block of the source.
FirstBlockSum ==
  get_footer_values(SubSeq(source.data, BGZF_HEADER_SIZE + 1,
                           get_block_size(SubSeq(source.data, 1, BGZF_HEADER_SIZE)))).sum

\* C19: the read call that takes in a block whose footer declares length 0
\* accepts it, with no byte of it to deliver, when the footer's CRC is the
\* CRC-32 of nothing (0), whatever the payload is; otherwise it fails with
\* InvalidChecksum.  The payload is never inflated: no payload makes the
\* call fail with the engine's error.
C19_ZeroLengthSkipsInflate ==
  [][(source.pos = 0 /\ source'.pos > 0) =>
       IF FirstBlockSum = Crc32(<< >>)
       THEN /\ FirstBlockSum = << 0, 0 >>
            /\ rret'.res = "Ok"
            /\ IsPrefix(rret'.out, << 66 >>)
            /\ stale' = 0
       ELSE /\ rret'.res = "Err"
            /\ rret'.err = "InvalidChecksum"
            /\ decompressed_buffer' = << >>]_vars

\* A zero-length block with a payload that is no deflate stream and CRC 0
\* was accepted, and the block behind it delivered.
C19_Witness ==
  /\ source.data = ZeroLengthBlock(<< 7, 7 >>, << 0, 0 >>) \o ValidBlock(<< 66 >>)
  /\ source.pos = Len(source.data)
  /\ rret.res = "Ok"
  /\ delivered = << 66 >>
  /\ leaked = 0

\* A header without the extra-field bit (value 4) in the flag byte at offset
\* 3, or whose bytes at offsets 12 and 13 are not 'B' (66), 'C' (67).
LacksExtraFieldOrSid(h) ==
  \/ (h[4] \div 4) % 2 = 0
  \/ h[13] # 66
  \/ h[14] # 67

\* C20: a read call that reads a whole header without the extra-field bit or
\* without the 'B','C' identifier returns the error InvalidHeader, delivers
\* nothing, and has read nothing of the source behind that header; and
\* InvalidHeader is returned for such headers only.
C20_InvalidHeaderIsError ==
  [][/\ (source'.pos # source.pos /\ rret'.at # "header" /\ rret'.res # "Panic"
         /\ LacksExtraFieldOrSid(header_buffer')) =>
          /\ check_header(header_buffer') = "InvalidHeader"
          /\ rret'.res = "Err"
          /\ rret'.err = "InvalidHeader"
          /\ rret'.out = << >>
          /\ delivered' = delivered
          /\ source'.pos >= BGZF_HEADER_SIZE
          /\ header_buffer' = SubSeq(source.data, source'.pos - BGZF_HEADER_SIZE + 1,
                                     source'.pos)
     /\ rret'.err = "InvalidHeader" =>
          /\ rret'.res = "Err"
          /\ LacksExtraFieldOrSid(header_buffer')]_vars

\* After a block was delivered, a header with a wrong identifier made read
\* fail, with the block's payload still unread in the source.
C20_Witness ==
  /\ rret.res = "Err"
  /\ rret.err = "InvalidHeader"
  /\ delivered # << >>
  /\ header_buffer[4] = BGZF_NAME_COMMENT_EXTRA_FLAG
  /\ header_buffer[13] # BGZF_SUBFIELD_ID1
  /\ source.pos + get_block_size(header_buffer) - BGZF_HEADER_SIZE <= Len(source.data)
  /\ get_block_size(header_buffer) > BGZF_HEADER_SIZE

\* C21: the read call that takes in a block whose two leading bytes are not
\* 0x1f 0x8b fails with InvalidHeader.
C21_BadMagicIsInvalidHeader ==
  [][(source.pos = 0 /\ source'.pos > 0
      /\ << source.data[1], source.data[2] >>
           # << BGZF_MAGIC_BYTE_A, BGZF_MAGIC_BYTE_B >>) =>
       (rret'.res = "Err" /\ rret'.err = "InvalidHeader")]_vars

(***************************************************************************)
(* A reference decoding of a byte string as a sequence of BGZF blocks,     *)
(* walking it by each block's size field from offset from: whether it is   *)
(* well-formed, the plaintext of its blocks, and the block boundaries.     *)
(***************************************************************************)
BlockAt(bytes, from) ==
  LET hb == SubSeq(bytes, from + 1, from + BGZF_HEADER_SIZE)
      size == get_block_size(hb)
      cb == SubSeq(bytes, from + BGZF_HEADER_SIZE + 1, from + size)
  IN  IF Len(bytes) - from < BGZF_HEADER_SIZE + BGZF_FOOTER_SIZE
      THEN [ok |-> FALSE, size |-> 0, plain |-> << >>]
      ELSE IF \/ << hb[1], hb[2] >> # << BGZF_MAGIC_BYTE_A, BGZF_MAGIC_BYTE_B >>
              \/ check_header(hb) # "Ok"
              \/ size < BGZF_HEADER_SIZE + BGZF_FOOTER_SIZE
              \/ from + size > Len(bytes)
      THEN [ok |-> FALSE, size |-> 0, plain |-> << >>]
      ELSE LET check == get_footer_values(cb)
               d == decompress(strip_footer(cb), Zeros(AsUsize(check.amount)),
                               check)
           IN  [ok |-> d.res = "Ok", size |-> size, plain |-> d.output]

RECURSIVE WellFormed(_, _)
WellFormed(bytes, from) ==
  \/ from = Len(bytes)
  \/ \E b \in {BlockAt(bytes, from)} : b.ok /\ WellFormed(bytes, from + b.size)

RECURSIVE PlainOf(_, _)
PlainOf(bytes, from) ==
  IF from >= Len(bytes) THEN << >>
  ELSE LET b == BlockAt(bytes, from)
       IN  b.plain \o PlainOf(bytes, from + get_block_size(
                        SubSeq(bytes, from + 1, from + BGZF_HEADER_SIZE)))

RECURSIVE Boundaries(_, _)
Boundaries(bytes, from) ==
  IF from >= Len(bytes) THEN {from}
  ELSE {from} \cup Boundaries(bytes, from + get_block_size(
                        SubSeq(bytes, from + 1, from + BGZF_HEADER_SIZE)))

\* C22: over a well-formed source the reads return no error; the source is
\* consumed block by block, by each block's size field; the bytes delivered
\* so far followed by the queue are the plaintext of the blocks consumed,
\* whatever sizes were requested; and once a read returns fewer bytes than
\* asked, everything delivered is the plaintext of all the blocks.
C22_SameBytesForEveryRequestSequence ==
  (source.end = "eof" /\ source.data # << >> /\ WellFormed(source.data, 0)) =>
    /\ rret.res \in {"none", "Ok"}
    /\ source.pos \in Boundaries(source.data, 0)
    /\ delivered \o decompressed_buffer
         = PlainOf(SubSeq(source.data, 1, source.pos), 0)
    /\ (rret.res = "Ok" /\ Len(rret.out) < rret.req) =>
         delivered = PlainOf(source.data, 0)

\* Three blocks, the middle one of two bytes, read to the end.
C22_Witness ==
  /\ source.end = "eof"
  /\ source.data
       = ValidBlock(<< 65 >>) \o ValidBlock(<< 70, 0 >>) \o ValidBlock(<< 66 >>)
  /\ AtEndOfStream
  /\ delivered = << 65, 70, 0, 66 >>

\* C23: a read call that pulls a block from the source first copied the
\* whole output queue to the caller: the queue held no more than was asked
\* for, and what the call returns starts with what the queue held.
C23_RefillOnlyWhenQueueEmpty ==
  [][source'.pos # source.pos =>
       /\ CopyCount(Len(decompressed_buffer), rret'.req) = Len(decompressed_buffer)
       /\ rret'.res = "Ok" => IsPrefix(decompressed_buffer, rret'.out)]_vars

\* The second byte of a block was left in the queue, and the next call
\* returned it in front of the next block's byte.
C23_Witness ==
  /\ source.data = ValidBlock(<< 70, 0 >>) \o ValidBlock(<< 66 >>)
  /\ source.pos = Len(source.data)
  /\ rret.res = "Ok"
  /\ rret.out = << 0, 66 >>
  /\ delivered = << 70, 0, 66 >>

\* The plaintext of every block handed to the sink, whether or not the sink
\* took it.
RECURSIVE HandedPlain(_)
HandedPlain(snk) ==
  IF snk = << >> THEN << >>
  ELSE (IF Head(snk).op = "write" THEN Decoded(Head(snk).data).out ELSE << >>)
       \o HandedPlain(Tail(snk))

\* The elements of s occur in t, in the order of s.
RECURSIVE IsSubsequence(_, _)
IsSubsequence(s, t) ==
  \/ s = << >>
  \/ /\ t # << >>
     /\ IF Head(s) = Head(t)
        THEN IsSubsequence(Tail(s), Tail(t))
        ELSE IsSubsequence(s, Tail(t))

\* C24: between calls, every byte of every write that returned Ok is, in
\* order, in the plaintext of the blocks handed to the sink followed by the
\* accumulation buffer.
C24_AcceptedBytesKept ==
  pc = "idle" =>
    IsSubsequence(accepted, HandedPlain(sink) \o uncompressed_buffer)

\* finish() returned Err out of flush_buffer: it never took the sink.
FinishFailedDraining == finished = "Err" /\ writer = "Some"

\* C25: after a finish() that returned an error because draining the
\* accumulation buffer failed, the sink holds no end-marker, whether finish
\* or the destructor of the consumed Writer would have written it.
C25_NoEofAfterFailedDraining == FinishFailedDraining => EofCount(sink) = 0

\* C26: whatever bytes the source supplies, no read call aborts: each one
\* returns Ok or Err.
C26_ReadNeverPanics == pc # "panicked" /\ rret.res # "Panic"

====
